---- MODULE Spec2Model ----
(***************************************************************************)
(* Three command-line scripts upload a local file to Cognite Data Fusion:  *)
(*   Jules    = cdf_file_uploader_byJules_v1.py                            *)
(*   Uploader = cdf_uploader.py                                            *)
(*   GC       = upload_to_cdf_byGC_v1.py                                   *)
(* Each run is one process; several runs may execute concurrently against  *)
(* the same remote ContainerService (the set `spaces`).  Every remote call *)
(* is one atomic step: the call, the service's answer and the script's     *)
(* handling of that answer up to its next remote call.                     *)
(***************************************************************************)
EXTENDS Naturals, Sequences, FiniteSets

\* Number of concurrently running script invocations.
NumProcs == 2

Procs == 1..NumProcs

Scripts == {"Jules", "Uploader", "GC"}

None == "None"

\* Process exit status: 0 when the interpreter ends normally, 1 after
\* sys.exit(1).
ExitSuccess == "exit 0"
ExitFailure == "exit 1"

\* The fixed fallback container of all three scripts.
demo_space == "demo_space"

\* The target container each script is configured with.
TARGET_DM_SPACE_XID == "my_data_model_space"
TARGET_SPACE_EXTERNAL_ID == "sdk_doc_integration_space"
target_space_external_id == "<TARGET_SPACE_EXTERNAL_ID>"

TargetOf(s) ==
  CASE s = "Jules" -> TARGET_DM_SPACE_XID
    [] s = "Uploader" -> TARGET_SPACE_EXTERNAL_ID
    [] s = "GC" -> target_space_external_id

VARIABLES
  spaces,     \* ContainerService: identifiers of the containers that exist
  spaces0,    \* the containers that existed before any process started
  script,     \* script[p]: which script process p runs
  pc,         \* pc[p]: the next step of process p
  calls,      \* calls[p]: the ContainerService calls p issued, with answers
  space_xid,  \* space_xid[p]: the identifier resolution returned, or None
  outcome,    \* outcome[p]: "pending", "returned" or "fatal" (resolution)
  steps,      \* steps[p]: the pipeline events of p outside resolution
  files,      \* FileStore: external ids of the uploaded files
  records,    \* RecordStore: the CogniteFile nodes, [space, external_id]
  local_file, \* local_file[p]: p's configured local file: "present",
              \* "missing", or "unchecked" while p has not looked at it
  exit_code   \* exit_code[p]: None while running, then the process status

vars == <<spaces, spaces0, script, pc, calls, space_xid, outcome, steps, files,
          records, local_file, exit_code>>

----------------------------------------------------------------------------
(* ContainerService: retrieve(id) and create(id).  The service answers     *)
(* truthfully about existence; any call may also fail with an API error.   *)

\* Answers of spaces.retrieve: an object, None, CogniteNotFoundError, or
\* another CogniteAPIError.
RetrieveAnswers(id) ==
  IF id \in spaces THEN {"found", "api_error"}
  ELSE {"none", "not_found", "api_error"}

\* Answers of spaces.apply / spaces.create: the created container,
\* CogniteDuplicatedError when it already exists, or another CogniteAPIError.
CreateAnswers(id) ==
  IF id \in spaces THEN {"duplicate", "api_error"}
  ELSE {"created", "api_error"}

\* The container the service holds after answering a create call.
SpacesAfterCreate(id, ans) ==
  IF ans = "created" THEN spaces \cup {id} ELSE spaces

\* The identifier carried by the object a successful create returns.
CreatedSpace(id) == [space |-> id]

Call(op, id, ans) == [op |-> op, id |-> id, ans |-> ans]

----------------------------------------------------------------------------
(* What a handler does with an answer: where the process continues, what   *)
(* resolution returned, and the exit status if the process ends.           *)

Goto(next) ==
  [pc |-> next, ret |-> None, outcome |-> "pending", exit |-> None]

Return(id, next) ==
  [pc |-> next, ret |-> id, outcome |-> "returned", exit |-> None]

Fatal(code) ==
  [pc |-> "done", ret |-> None, outcome |-> "fatal", exit |-> code]

\* Process p issued `call`, the service now holds `sp`, p continues as k.
Resolve(p, call, sp, k) ==
  /\ calls' = [calls EXCEPT ![p] = Append(@, call)]
  /\ spaces' = sp
  /\ pc' = [pc EXCEPT ![p] = k.pc]
  /\ space_xid' = [space_xid EXCEPT ![p] = k.ret]
  /\ outcome' = [outcome EXCEPT ![p] = k.outcome]
  /\ exit_code' = [exit_code EXCEPT ![p] = k.exit]
  /\ UNCHANGED <<spaces0, script, steps, files, records, local_file>>

----------------------------------------------------------------------------
(* cdf_file_uploader_byJules_v1.py: get_or_create_space                    *)

\* Faulty variant: the found branch does not return and falls through to the apply.
get_or_create_space_retrieved_fallthrough(target, ans) ==
  Goto("create_fallback")

\* try: spaces.retrieve(target); found -> return target; None,
\* CogniteNotFoundError and CogniteAPIError fall through to the apply.
get_or_create_space_retrieved(target, ans) ==
  IF ans = "found" THEN Return(target, "upload") ELSE Goto("create_fallback")

\* Faulty variant: after a successful apply the target identifier is returned.
get_or_create_space_applied_target(ans, created_space) ==
  CASE ans = "created" -> Return(TARGET_DM_SPACE_XID, "upload")
    [] ans = "duplicate" -> Return(demo_space, "upload")
    [] ans = "api_error" -> Fatal(ExitSuccess)

\* Faulty variant: a failed apply is only logged and main carries on.
get_or_create_space_applied_continue(ans, created_space) ==
  CASE ans = "created" -> Return(created_space.space, "upload")
    [] ans = "duplicate" -> Return(demo_space, "upload")
    [] ans = "api_error" -> Goto("upload")

\* try: spaces.apply(demo_space); CogniteDuplicatedError -> return
\* demo_space; CogniteAPIError -> raise, which main catches and prints before
\* returning normally (exit status 0).
get_or_create_space_applied(ans, created_space) ==
  CASE ans = "created" -> Return(created_space.space, "upload")
    [] ans = "duplicate" -> Return(demo_space, "upload")
    [] ans = "api_error" -> Fatal(ExitSuccess)

get_or_create_space_retrieve(p) ==
  /\ script[p] = "Jules"
  /\ pc[p] = "retrieve_target"
  /\ \E ans \in RetrieveAnswers(TargetOf("Jules")) :
       Resolve(p, Call("retrieve", TargetOf("Jules"), ans), spaces,
               get_or_create_space_retrieved(TargetOf("Jules"), ans))

get_or_create_space_apply(p) ==
  /\ script[p] = "Jules"
  /\ pc[p] = "create_fallback"
  /\ \E ans \in CreateAnswers(demo_space) :
       Resolve(p, Call("create", demo_space, ans),
               SpacesAfterCreate(demo_space, ans),
               get_or_create_space_applied(ans, CreatedSpace(demo_space)))

----------------------------------------------------------------------------
(* cdf_uploader.py: ensure_space_exists                                    *)

\* Target retrieve: found -> return target; None, CogniteNotFoundError and
\* CogniteAPIError all proceed to the fallback logic.
ensure_space_exists_target(target, ans) ==
  IF ans = "found" THEN Return(target, "prepare_file")
  ELSE Goto("retrieve_fallback")

\* Faulty variant: an API error of the fallback retrieve is retried.
ensure_space_exists_fallback_retry(ans) ==
  CASE ans = "found" -> Return(demo_space, "prepare_file")
    [] ans \in {"none", "not_found"} -> Goto("create_fallback")
    [] ans = "api_error" -> Goto("retrieve_fallback")

\* Faulty variant: an API error of the fallback retrieve leads to the create.
ensure_space_exists_fallback_create(ans) ==
  CASE ans = "found" -> Return(demo_space, "prepare_file")
    [] ans \in {"none", "not_found", "api_error"} -> Goto("create_fallback")

\* Fallback retrieve: found -> return demo_space; None or
\* CogniteNotFoundError -> create it; CogniteAPIError -> return None, and
\* __main__ exits with status 1.
ensure_space_exists_fallback(ans) ==
  CASE ans = "found" -> Return(demo_space, "prepare_file")
    [] ans \in {"none", "not_found"} -> Goto("create_fallback")
    [] ans = "api_error" -> Fatal(ExitFailure)

\* Faulty variant: an exception of the apply is swallowed and demo_space returned.
ensure_space_exists_applied_swallow(ans, created_space) ==
  Return(demo_space, "prepare_file")

\* spaces.apply(demo_space): created -> return its .space; every exception
\* (CogniteDuplicatedError included: no handler names it) -> return None.
ensure_space_exists_applied(ans, created_space) ==
  IF ans = "created" THEN Return(created_space.space, "prepare_file")
  ELSE Fatal(ExitFailure)

ensure_space_exists_retrieve_target(p) ==
  /\ script[p] = "Uploader"
  /\ pc[p] = "retrieve_target"
  /\ \E ans \in RetrieveAnswers(TargetOf("Uploader")) :
       Resolve(p, Call("retrieve", TargetOf("Uploader"), ans), spaces,
               ensure_space_exists_target(TargetOf("Uploader"), ans))

ensure_space_exists_retrieve_fallback(p) ==
  /\ script[p] = "Uploader"
  /\ pc[p] = "retrieve_fallback"
  /\ \E ans \in RetrieveAnswers(demo_space) :
       Resolve(p, Call("retrieve", demo_space, ans), spaces,
               ensure_space_exists_fallback(ans))

\* Faulty variant: the SpaceApply names the target instead of demo_space.
ensure_space_exists_apply_target(p) ==
  /\ script[p] = "Uploader"
  /\ pc[p] = "create_fallback"
  /\ \E ans \in CreateAnswers(TargetOf("Uploader")) :
       Resolve(p, Call("create", TargetOf("Uploader"), ans),
               SpacesAfterCreate(TargetOf("Uploader"), ans),
               ensure_space_exists_applied(ans,
                                           CreatedSpace(TargetOf("Uploader"))))

ensure_space_exists_apply(p) ==
  /\ script[p] = "Uploader"
  /\ pc[p] = "create_fallback"
  /\ \E ans \in CreateAnswers(demo_space) :
       Resolve(p, Call("create", demo_space, ans),
               SpacesAfterCreate(demo_space, ans),
               ensure_space_exists_applied(ans, CreatedSpace(demo_space)))

----------------------------------------------------------------------------
(* upload_to_cdf_byGC_v1.py: the space block of main                       *)

\* Faulty variant: the `if not space` test is missing; any returned value counts
\* as the target having been found.
main_space_retrieved_unchecked(target, ans) ==
  CASE ans \in {"found", "none"} -> Return(target, "read_file")
    [] ans \in {"not_found", "api_error"} -> Fatal(ExitFailure)

\* spaces.retrieve(target): an object -> use the target; a falsy result ->
\* create demo_space; any raised API error -> sys.exit(1).
main_space_retrieved(target, ans) ==
  CASE ans = "found" -> Return(target, "read_file")
    [] ans = "none" -> Goto("create_fallback")
    [] ans \in {"not_found", "api_error"} -> Fatal(ExitFailure)

\* spaces.create({"external_id": "demo_space"}): on return the literal
\* "demo_space" is used; any raised API error -> sys.exit(1).
main_space_created(ans) ==
  IF ans = "created" THEN Return("demo_space", "read_file") ELSE Fatal(ExitFailure)

main_retrieve_space(p) ==
  /\ script[p] = "GC"
  /\ pc[p] = "retrieve_target"
  /\ \E ans \in RetrieveAnswers(TargetOf("GC")) :
       Resolve(p, Call("retrieve", TargetOf("GC"), ans), spaces,
               main_space_retrieved(TargetOf("GC"), ans))

main_create_space(p) ==
  /\ script[p] = "GC"
  /\ pc[p] = "create_fallback"
  /\ \E ans \in CreateAnswers(demo_space) :
       Resolve(p, Call("create", demo_space, ans),
               SpacesAfterCreate(demo_space, ans), main_space_created(ans))

----------------------------------------------------------------------------
(* The pipeline steps around resolution.                                   *)

\* The external ids each script is configured with.
FILE_EXTERNAL_ID(s) ==
  CASE s = "Jules" -> "unique_file_external_id_001"
    [] s = "Uploader" -> "my_sample_file"
    [] s = "GC" -> "<FILE_EXTERNAL_ID>"

\* Faulty variant: the upload is called without overwrite.
files_upload_no_overwrite == FALSE

\* files.upload is called with overwrite=True.
files_upload_overwrite == TRUE

\* FileStore.upload(externalId, overwrite): an existing external id is
\* replaced when overwrite is set and refused as a duplicate otherwise; any
\* call may also fail with an API error.
UploadAnswers(xid, overwrite) ==
  IF xid \in files /\ ~overwrite THEN {"duplicate", "api_error"}
  ELSE {"uploaded", "api_error"}

\* The FileStore after an upload call: one file per external id.
FilesAfterUpload(xid, ans) ==
  IF ans = "uploaded" THEN files \cup {xid} ELSE files

\* RecordStore.createRecord(containerId, externalId): an upsert keyed by
\* container and external id; the call may fail with an API error.
RecordAnswers == {"applied", "api_error"}

RecordsAfterApply(node, ans) ==
  IF ans = "applied" THEN records \cup {node} ELSE records

\* Process p logs `events`, continues at `next`, or ends with status `code`.
StepSeq(p, events, next, code) ==
  /\ steps' = [steps EXCEPT ![p] = @ \o events]
  /\ pc' = [pc EXCEPT ![p] = next]
  /\ exit_code' = [exit_code EXCEPT ![p] = code]
  /\ UNCHANGED <<spaces, spaces0, script, calls, space_xid, outcome>>

Step(p, event, next, code) == StepSeq(p, <<event>>, next, code)

\* What os.path.exists / open find: a file not looked at before may or may
\* not be there; afterwards only the script itself changes it.
LocalFileStates(p) ==
  IF local_file[p] = "unchecked" THEN {"present", "missing"}
  ELSE {local_file[p]}

\* Jules main: the placeholder path gets a dummy file when it is missing;
\* an OSError while creating it ends the process with sys.exit(1).
main_dummy_file(p) ==
  /\ script[p] = "Jules"
  /\ pc[p] = "dummy_file"
  /\ UNCHANGED <<files, records>>
  /\ \E f \in LocalFileStates(p) :
       IF f = "present"
       THEN /\ Step(p, "file_present", "client", None)
            /\ local_file' = [local_file EXCEPT ![p] = "present"]
       ELSE \/ /\ Step(p, "dummy_created", "client", None)
               /\ local_file' = [local_file EXCEPT ![p] = "present"]
            \/ /\ Step(p, "os_error", "done", ExitFailure)
               /\ local_file' = [local_file EXCEPT ![p] = "missing"]

\* Jules initialize_cognite_client: a missing variable raises ValueError,
\* which main catches and prints; the process then ends normally.
initialize_cognite_client(p) ==
  /\ script[p] = "Jules"
  /\ pc[p] = "client"
  /\ UNCHANGED <<files, records, local_file>>
  /\ \/ Step(p, "client_ok", "retrieve_target", None)
     \/ Step(p, "config_error", "done", ExitSuccess)

\* Faulty variant: main ends after step 3 without creating the node.
upload_file_to_cdf_files_api_only(p) ==
  /\ script[p] = "Jules"
  /\ pc[p] = "upload"
  /\ UNCHANGED records
  /\ \E f \in LocalFileStates(p) :
       /\ local_file' = [local_file EXCEPT ![p] = f]
       /\ IF f = "missing"
          THEN /\ Step(p, "file_not_found", "done", ExitSuccess)
               /\ UNCHANGED files
          ELSE \E ans \in UploadAnswers(FILE_EXTERNAL_ID("Jules"),
                                         files_upload_overwrite) :
                 /\ files' = FilesAfterUpload(FILE_EXTERNAL_ID("Jules"), ans)
                 /\ IF ans = "uploaded"
                    THEN Step(p, "upload_ok", "done", ExitSuccess)
                    ELSE Step(p, "upload_" \o ans, "done", ExitSuccess)

\* Jules upload_file_to_cdf_files_api: FileNotFoundError when the file is
\* missing, else files.upload(overwrite=True); every exception is caught and
\* printed by main, which then ends normally.
upload_file_to_cdf_files_api(p) ==
  /\ script[p] = "Jules"
  /\ pc[p] = "upload"
  /\ UNCHANGED records
  /\ \E f \in LocalFileStates(p) :
       /\ local_file' = [local_file EXCEPT ![p] = f]
       /\ IF f = "missing"
          THEN /\ Step(p, "file_not_found", "done", ExitSuccess)
               /\ UNCHANGED files
          ELSE \E ans \in UploadAnswers(FILE_EXTERNAL_ID("Jules"),
                                         files_upload_overwrite) :
                 /\ files' = FilesAfterUpload(FILE_EXTERNAL_ID("Jules"), ans)
                 /\ IF ans = "uploaded"
                    THEN Step(p, "upload_ok", "record", None)
                    ELSE Step(p, "upload_" \o ans, "done", ExitSuccess)

\* Faulty variant: the node is put in the configured target space.
cognite_file_node_in_target(p) ==
  [space |-> TARGET_DM_SPACE_XID, external_id |-> FILE_EXTERNAL_ID("Jules")]

\* The NodeApply built by create_cognite_file_node: space is the
\* dm_space_external_id main passes (the resolved space), external_id is
\* COGNITE_FILE_NODE_EXTERNAL_ID = FILE_EXTERNAL_ID.
cognite_file_node(p) ==
  [space |-> space_xid[p], external_id |-> FILE_EXTERNAL_ID("Jules")]

\* Jules create_cognite_file_node: instances.apply of one NodeApply in the
\* resolved space, then main prints "Script finished successfully"; an API
\* error is caught and printed by main.  The process ends normally.
create_cognite_file_node(p) ==
  /\ script[p] = "Jules"
  /\ pc[p] = "record"
  /\ UNCHANGED <<files, local_file>>
  /\ \E ans \in RecordAnswers :
       /\ records' = RecordsAfterApply(cognite_file_node(p), ans)
       /\ IF ans = "applied"
          THEN StepSeq(p, <<"record_ok", "finished_successfully">>, "done",
                       ExitSuccess)
          ELSE Step(p, "record_api_error", "done", ExitSuccess)

\* Faulty variant: the missing variables are reported but not raised.
get_cdf_client_unchecked(p) ==
  /\ script[p] = "Uploader"
  /\ pc[p] = "client"
  /\ UNCHANGED <<files, records, local_file>>
  /\ \/ Step(p, "client_ok", "retrieve_target", None)
     \/ Step(p, "config_error", "retrieve_target", None)

\* Uploader get_cdf_client: a missing variable raises ValueError, which
\* __main__ catches and prints; the process then ends normally.
get_cdf_client(p) ==
  /\ script[p] = "Uploader"
  /\ pc[p] = "client"
  /\ UNCHANGED <<files, records, local_file>>
  /\ \/ Step(p, "client_ok", "retrieve_target", None)
     \/ Step(p, "config_error", "done", ExitSuccess)

\* Uploader __main__ step 3: a missing sample file is created.
main_prepare_file(p) ==
  /\ script[p] = "Uploader"
  /\ pc[p] = "prepare_file"
  /\ UNCHANGED <<files, records>>
  /\ local_file' = [local_file EXCEPT ![p] = "present"]
  /\ \E f \in LocalFileStates(p) :
       IF f = "present"
       THEN Step(p, "file_present", "upload", None)
       ELSE Step(p, "dummy_created", "upload", None)

\* Uploader upload_file_to_cdf: files.upload(overwrite=True); every
\* exception is caught and printed inside the function, so __main__ prints
\* "CDF file uploader script finished." and ends normally either way.
upload_file_to_cdf(p) ==
  /\ script[p] = "Uploader"
  /\ pc[p] = "upload"
  /\ UNCHANGED <<records, local_file>>
  /\ \E ans \in UploadAnswers(FILE_EXTERNAL_ID("Uploader"),
                              files_upload_overwrite) :
       /\ files' = FilesAfterUpload(FILE_EXTERNAL_ID("Uploader"), ans)
       /\ IF ans = "uploaded"
          THEN StepSeq(p, <<"upload_ok", "finished">>, "done", ExitSuccess)
          ELSE StepSeq(p, <<"upload_" \o ans, "finished">>, "done",
                       ExitSuccess)

\* GC get_env_var (five times): a missing variable ends with sys.exit(1).
get_env_var(p) ==
  /\ script[p] = "GC"
  /\ pc[p] = "env"
  /\ UNCHANGED <<files, records, local_file>>
  /\ \/ Step(p, "env_ok", "client", None)
     \/ Step(p, "config_error", "done", ExitFailure)

\* GC main: CogniteClient(...); any exception ends with sys.exit(1).
main_init_client(p) ==
  /\ script[p] = "GC"
  /\ pc[p] = "client"
  /\ UNCHANGED <<files, records, local_file>>
  /\ \/ Step(p, "client_ok", "retrieve_target", None)
     \/ Step(p, "client_error", "done", ExitFailure)

\* GC main: open(local_file_path); FileNotFoundError ends with sys.exit(1).
main_read_file(p) ==
  /\ script[p] = "GC"
  /\ pc[p] = "read_file"
  /\ UNCHANGED <<files, records>>
  /\ \E f \in LocalFileStates(p) :
       /\ local_file' = [local_file EXCEPT ![p] = f]
       /\ IF f = "present"
          THEN Step(p, "file_read", "upload", None)
          ELSE Step(p, "file_not_found", "done", ExitFailure)

\* GC main: building FileWrite reads the local name file_metadata before
\* main assigns it, which raises UnboundLocalError; `except Exception`
\* prints it and ends with sys.exit(1) before files.upload_bytes is called.
main_upload(p) ==
  /\ script[p] = "GC"
  /\ pc[p] = "upload"
  /\ UNCHANGED <<files, records, local_file>>
  /\ Step(p, "upload_unexpected_error", "done", ExitFailure)

----------------------------------------------------------------------------

EntryOf(s) ==
  CASE s = "Jules" -> "dummy_file"
    [] s = "Uploader" -> "client"
    [] s = "GC" -> "env"

\* Runs are interchangeable, so the scripts are assigned to the process
\* numbers in one fixed order (Jules before Uploader before GC).
ScriptIndex(s) ==
  CHOOSE i \in DOMAIN <<"Jules", "Uploader", "GC">> :
    <<"Jules", "Uploader", "GC">>[i] = s

ScriptAssignments ==
  {f \in [Procs -> Scripts] :
     \A p, q \in Procs : p < q => ScriptIndex(f[p]) <= ScriptIndex(f[q])}

\* Any of the containers the running scripts name may exist beforehand.
Init ==
  /\ script \in ScriptAssignments
  /\ spaces \in SUBSET ({TargetOf(script[p]) : p \in Procs} \cup {demo_space})
  /\ spaces0 = spaces
  /\ pc = [p \in Procs |-> EntryOf(script[p])]
  /\ calls = [p \in Procs |-> <<>>]
  /\ space_xid = [p \in Procs |-> None]
  /\ outcome = [p \in Procs |-> "pending"]
  /\ steps = [p \in Procs |-> <<>>]
  /\ files = {}
  /\ records = {}
  /\ local_file = [p \in Procs |-> "unchecked"]
  /\ exit_code = [p \in Procs |-> None]

Next ==
  \E p \in Procs :
    \/ main_dummy_file(p)
    \/ initialize_cognite_client(p)
    \/ get_or_create_space_retrieve(p)
    \/ get_or_create_space_apply(p)
    \/ upload_file_to_cdf_files_api(p)
    \/ create_cognite_file_node(p)
    \/ get_cdf_client(p)
    \/ ensure_space_exists_retrieve_target(p)
    \/ ensure_space_exists_retrieve_fallback(p)
    \/ ensure_space_exists_apply(p)
    \/ main_prepare_file(p)
    \/ upload_file_to_cdf(p)
    \/ get_env_var(p)
    \/ main_init_client(p)
    \/ main_retrieve_space(p)
    \/ main_create_space(p)
    \/ main_read_file(p)
    \/ main_upload(p)

Spec == Init /\ [][Next]_vars

\* Container resolution alone: every process runs from its start up to the
\* point where resolution has returned or failed, and stops there.  The
\* later pipeline steps read space_xid but change nothing of resolution.
ResolutionNext ==
  \E p \in Procs :
    \/ main_dummy_file(p)
    \/ initialize_cognite_client(p)
    \/ get_or_create_space_retrieve(p)
    \/ get_or_create_space_apply(p)
    \/ get_cdf_client(p)
    \/ ensure_space_exists_retrieve_target(p)
    \/ ensure_space_exists_retrieve_fallback(p)
    \/ ensure_space_exists_apply(p)
    \/ get_env_var(p)
    \/ main_init_client(p)
    \/ main_retrieve_space(p)
    \/ main_create_space(p)

ResolutionSpec == Init /\ [][ResolutionNext]_vars

\* Runs one after the other: a process steps only when every process with a
\* smaller number has ended, as when the operator invokes a script again
\* after the previous invocation returned.
InSequence(p) == \A q \in Procs : q < p => pc[q] = "done"

SequentialNext ==
  \E p \in Procs :
    /\ InSequence(p)
    /\ \/ main_dummy_file(p)
       \/ initialize_cognite_client(p)
       \/ get_or_create_space_retrieve(p)
       \/ get_or_create_space_apply(p)
       \/ upload_file_to_cdf_files_api(p)
       \/ create_cognite_file_node(p)
       \/ get_cdf_client(p)
       \/ ensure_space_exists_retrieve_target(p)
       \/ ensure_space_exists_retrieve_fallback(p)
       \/ ensure_space_exists_apply(p)
       \/ main_prepare_file(p)
       \/ upload_file_to_cdf(p)
       \/ get_env_var(p)
       \/ main_init_client(p)
       \/ main_retrieve_space(p)
       \/ main_create_space(p)
       \/ main_read_file(p)
       \/ main_upload(p)

SequentialSpec == Init /\ [][SequentialNext]_vars

----------------------------------------------------------------------------
(* Vocabulary of the properties.                                           *)

Target(p) == TargetOf(script[p])

Answered(p, i, op, id, answers) ==
  /\ i \in DOMAIN calls[p]
  /\ calls[p][i].op = op
  /\ calls[p][i].id = id
  /\ calls[p][i].ans \in answers

IssuedCreate(p) == \E i \in DOMAIN calls[p] : calls[p][i].op = "create"

CreateAnswered(p, answers) ==
  \E i \in DOMAIN calls[p] :
    calls[p][i].op = "create" /\ calls[p][i].ans \in answers

NoApiError(p) == \A i \in DOMAIN calls[p] : calls[p][i].ans # "api_error"

Returned(p, id) == outcome[p] = "returned" /\ space_xid[p] = id

\* Position of a call in the chain target retrieve, fallback retrieve, create.
Rank(c) ==
  IF c.op = "create" THEN 3 ELSE IF c.id = demo_space THEN 2 ELSE 1

----------------------------------------------------------------------------
\* C1: in every script, when the retrieve of the desired container answers
\* found, resolution returns exactly the desired identifier and that retrieve
\* is the only ContainerService call of the resolution (no create/apply).
C1_FoundReturnsTarget ==
  \A p \in Procs :
    Answered(p, 1, "retrieve", Target(p), {"found"}) =>
      /\ Returned(p, Target(p))
      /\ ~IssuedCreate(p)
      /\ Len(calls[p]) = 1

C1_Witness ==
  \E p \in Procs :
    /\ Answered(p, 1, "retrieve", Target(p), {"found"})
    /\ Returned(p, Target(p))

\* C2 (as claimed): when the target retrieve answers not-found, the fallback
\* demo_space already existed and no call failed transiently, resolution
\* returns demo_space without issuing any create/apply call.
C2_FallbackExistsNoCreate ==
  \A p \in Procs :
    ( /\ Answered(p, 1, "retrieve", Target(p), {"none", "not_found"})
      /\ demo_space \in spaces0
      /\ NoApiError(p)
      /\ outcome[p] # "pending" ) =>
        /\ Returned(p, demo_space)
        /\ ~IssuedCreate(p)

\* C3: when a create call succeeds, it created demo_space and nothing else,
\* it is the only create call of the resolution, and resolution returns the
\* identifier the service reported, which is demo_space.
C3_CreateReturnsFallback ==
  \A p \in Procs :
    CreateAnswered(p, {"created"}) =>
      /\ \A i \in DOMAIN calls[p] :
           calls[p][i].op = "create" =>
             calls[p][i].id = demo_space /\ i = Len(calls[p])
      /\ demo_space \in spaces /\ demo_space \notin spaces0
      /\ spaces \ spaces0 = {demo_space}
      /\ Returned(p, CreatedSpace(demo_space).space)
      /\ space_xid[p] = demo_space

C3_Witness ==
  \E p \in Procs :
    /\ Target(p) \notin spaces0
    /\ demo_space \notin spaces0
    /\ CreateAnswered(p, {"created"})
    /\ Returned(p, demo_space)
    /\ spaces = spaces0 \cup {demo_space}

\* C4 (as claimed): a caller that loses the creation race (neither container
\* existed beforehand, its create call is answered 'already exists') treats
\* the duplicate as success and returns demo_space.
C4_DuplicateIsSuccess ==
  \A p \in Procs :
    ( /\ Target(p) \notin spaces0
      /\ demo_space \notin spaces0
      /\ CreateAnswered(p, {"duplicate"}) ) =>
        Returned(p, demo_space)

\* C5: when the create call for demo_space fails for a reason other than
\* 'already exists', resolution ends fatally: no identifier is returned, the
\* process makes no further ContainerService call and ends.
C5_CreateErrorIsFatal ==
  \A p \in Procs :
    CreateAnswered(p, {"api_error"}) =>
      /\ outcome[p] = "fatal"
      /\ space_xid[p] = None
      /\ pc[p] = "done"
      /\ calls[p][Len(calls[p])].op = "create"

C5_Witness ==
  \E p \in Procs :
    /\ CreateAnswered(p, {"api_error"})
    /\ outcome[p] = "fatal"
    /\ space_xid[p] = None

\* C6 (as claimed): when the target retrieve fails with an API error other
\* than not-found, resolution does not fail but continues with the fallback
\* step, as after a not-found answer.
C6_TargetErrorFallsBack ==
  \A p \in Procs :
    ( /\ Answered(p, 1, "retrieve", Target(p), {"api_error"})
      /\ Len(calls[p]) = 1 ) =>
        /\ outcome[p] = "pending"
        /\ pc[p] \in {"retrieve_fallback", "create_fallback"}

\* C7 (as claimed, in its most lenient reading): resolution fails only when
\* the target was not retrieved and an attempt on the fallback (its retrieve
\* or its creation) failed with an error; in particular not when the
\* fallback was never tried or its creation was answered 'already exists'.
C7_FailsOnlyAfterFallbackFailed ==
  \A p \in Procs :
    outcome[p] = "fatal" =>
      /\ ~Answered(p, 1, "retrieve", Target(p), {"found"})
      /\ \E i \in DOMAIN calls[p] :
           calls[p][i].id = demo_space /\ calls[p][i].ans = "api_error"

\* C8: whenever resolution has returned an identifier, a container with that
\* identifier exists in the ContainerService, and the identifier is the
\* desired one or demo_space.
C8_ReturnedExists ==
  \A p \in Procs :
    outcome[p] = "returned" =>
      /\ space_xid[p] \in spaces
      /\ space_xid[p] \in {Target(p), demo_space}

C8_Witness ==
  /\ \E p \in Procs : Returned(p, demo_space) /\ IssuedCreate(p)
  /\ \E p \in Procs : Returned(p, Target(p))

\* C9: resolution adds at most one container per process and only
\* demo_space: every create call names demo_space, at most one create call
\* per process succeeds, nothing but demo_space is new in the service, and
\* the desired container exists afterwards exactly if it did before.
C9_OnlyFallbackCreated ==
  /\ spaces \ spaces0 \subseteq {demo_space}
  /\ \A p \in Procs :
       /\ \A i \in DOMAIN calls[p] :
            calls[p][i].op = "create" =>
              calls[p][i].id = demo_space /\ calls[p][i].id # Target(p)
       /\ Cardinality({i \in DOMAIN calls[p] :
                         calls[p][i].ans = "created"}) <= 1
       /\ (Target(p) \in spaces) = (Target(p) \in spaces0)

C9_Witness ==
  \E p \in Procs :
    /\ CreateAnswered(p, {"created"})
    /\ Target(p) \notin spaces
    /\ spaces # spaces0
    /\ outcome[p] = "returned"

\* C10: no call is retried: the calls of one resolution are a strictly
\* ordered selection from target retrieve, fallback retrieve, create, so
\* there are at most three, and after a third the resolution is over.
C10_NoRetry ==
  \A p \in Procs :
    /\ Len(calls[p]) <= 3
    /\ \A i, j \in DOMAIN calls[p] :
         i < j => Rank(calls[p][i]) < Rank(calls[p][j])
    /\ \A i \in DOMAIN calls[p] :
         /\ calls[p][i].id \in {Target(p), demo_space}
         /\ Rank(calls[p][i]) = 1 => calls[p][i].id = Target(p)
    /\ Len(calls[p]) = 3 => outcome[p] # "pending"

C10_Witness ==
  \E p \in Procs :
    /\ Len(calls[p]) = 3
    /\ calls[p][2].ans \in {"none", "not_found"}
    /\ outcome[p] # "pending"

-----------------------------------------------------------------------------
\* Vocabulary of the pipeline claims, over the log of step results.
Has(p, e) == \E i \in DOMAIN steps[p] : steps[p][i] = e

HasAny(p, events) == \E i \in DOMAIN steps[p] : steps[p][i] \in events

Before(p, first, later) ==
  \E i, j \in DOMAIN steps[p] :
    i < j /\ steps[p][i] \in first /\ steps[p][j] \in later

\* Results of an upload call, of an upload step, and of a create-record call.
UploadCallEvents == {"upload_ok", "upload_api_error", "upload_duplicate"}

UploadStepEvents ==
  UploadCallEvents \cup {"file_not_found", "upload_unexpected_error"}

RecordCallEvents == {"record_ok", "record_api_error"}

SuccessReports == {"finished", "finished_successfully"}

ResolutionSteps == {"retrieve_target", "retrieve_fallback", "create_fallback"}

\* The identifier the resolution log of p determines.
ResolvedBy(p) ==
  IF Answered(p, 1, "retrieve", Target(p), {"found"})
  THEN Target(p) ELSE demo_space

\* C11: the steps of a run happen in the order authenticate, resolve,
\* upload, record, each at most once: no ContainerService call before the
\* client was built, no upload step before resolution has returned an
\* identifier, no create-record call before the upload call has returned
\* successfully, and nothing of upload or record while resolution runs.
C11_StepOrder ==
  \A p \in Procs :
    /\ \A j \in DOMAIN steps[p] : \A i \in 1..(j - 1) :
         /\ steps[p][i] # steps[p][j]
         /\ ~({steps[p][i], steps[p][j]} \subseteq UploadStepEvents)
         /\ ~({steps[p][i], steps[p][j]} \subseteq RecordCallEvents)
    /\ calls[p] # <<>> => Has(p, "client_ok")
    /\ pc[p] \in ResolutionSteps =>
         ~HasAny(p, UploadStepEvents \cup RecordCallEvents)
    /\ pc[p] \in {"upload", "record"} \/ HasAny(p, UploadStepEvents) =>
         /\ outcome[p] = "returned"
         /\ space_xid[p] = ResolvedBy(p)
         /\ Has(p, "client_ok")
    /\ pc[p] = "record" \/ HasAny(p, RecordCallEvents) =>
         /\ Has(p, "upload_ok")
         /\ ~Before(p, RecordCallEvents, UploadStepEvents)

C11_Witness ==
  \E p \in Procs :
    /\ Has(p, "client_ok")
    /\ Len(calls[p]) >= 2
    /\ Before(p, {"upload_ok"}, {"record_ok"})

\* C12: every FileRecord is in a container that exists, and was created by a
\* run whose resolution returned that container's identifier, the one its
\* resolution log determines, unchanged by the upload step; a run whose
\* resolution returned nothing issues no create-record call.
C12_RecordInResolvedSpace ==
  /\ \A r \in records :
       /\ r.space \in spaces
       /\ \E p \in Procs :
            /\ Has(p, "record_ok")
            /\ Returned(p, r.space)
            /\ r.space = ResolvedBy(p)
            /\ r.external_id = FILE_EXTERNAL_ID(script[p])
  /\ \A p \in Procs :
       /\ Has(p, "record_ok") =>
            [space |-> space_xid[p],
             external_id |-> FILE_EXTERNAL_ID(script[p])] \in records
       /\ outcome[p] # "returned" => ~HasAny(p, RecordCallEvents)

C12_Witness ==
  \E p \in Procs :
    /\ Has(p, "record_ok")
    /\ Returned(p, demo_space)
    /\ Target(p) \in spaces
    /\ \E r \in records : r.space = demo_space

\* The run of p went through every step of its script without an error.
EveryStepSucceeded(p) ==
  /\ Has(p, "client_ok")
  /\ outcome[p] = "returned"
  /\ Has(p, "upload_ok")
  /\ script[p] = "Jules" => Has(p, "record_ok")
  /\ ~HasAny(p, {"config_error", "client_error", "os_error",
                 "file_not_found", "upload_api_error", "upload_duplicate",
                 "upload_unexpected_error", "record_api_error"})

\* C13: a run that has ended has exit status 0 exactly when every step
\* succeeded, and exit status 1 otherwise.
C13_ExitStatus ==
  \A p \in Procs :
    pc[p] = "done" =>
      /\ exit_code[p] \in {ExitSuccess, ExitFailure}
      /\ (exit_code[p] = ExitSuccess) = EveryStepSucceeded(p)

\* C14: a run that finds a required environment variable missing reports a
\* configuration error and ends there: it has made no ContainerService call,
\* no upload and no create-record call, and makes none afterwards.
C14_ConfigErrorBeforeNetwork ==
  \A p \in Procs :
    Has(p, "config_error") =>
      /\ pc[p] = "done"
      /\ steps[p][Len(steps[p])] = "config_error"
      /\ calls[p] = <<>>
      /\ outcome[p] = "pending"
      /\ ~HasAny(p, {"client_ok"} \cup UploadStepEvents \cup RecordCallEvents)

C14_Witness ==
  \E p, q \in Procs :
    /\ Has(p, "config_error")
    /\ pc[p] = "done"
    /\ calls[q] # <<>>

\* The run of p found no file at the local path.
FileMissing(p) == HasAny(p, {"dummy_created", "os_error", "file_not_found"})

\* C15: a run that finds the local file missing makes no network call,
\* neither before nor after: no ContainerService call, no upload call and
\* no create-record call.
C15_MissingFileNoNetwork ==
  \A p \in Procs :
    FileMissing(p) =>
      /\ calls[p] = <<>>
      /\ ~HasAny(p, UploadCallEvents \cup RecordCallEvents)

\* C16: an API error of the upload or of the create-record call ends the
\* run as a failure: nothing is logged after the error, success is not
\* reported, and the exit status is not 0.
C16_UploadErrorIsFatal ==
  \A p \in Procs :
    HasAny(p, {"upload_api_error", "record_api_error"}) =>
      /\ steps[p][Len(steps[p])] \in {"upload_api_error", "record_api_error"}
      /\ ~HasAny(p, SuccessReports \cup {"record_ok"})
      /\ pc[p] = "done"
      /\ exit_code[p] # ExitSuccess

\* Records and files stored under the external id of script s.
RecordsOf(s) == {r \in records : r.external_id = FILE_EXTERNAL_ID(s)}

FilesOf(s) == files \cap {FILE_EXTERNAL_ID(s)}

\* Two runs of the same script, one after the other, both complete.
RanTwice(p, q) ==
  /\ p # q
  /\ script[p] = script[q]
  /\ pc[p] = "done" /\ pc[q] = "done"
  /\ Has(p, "upload_ok") /\ Has(q, "upload_ok")
  /\ script[p] = "Jules" => Has(p, "record_ok") /\ Has(q, "record_ok")

\* C17 as stated: after two complete runs with the same identifiers there
\* is exactly one file and, for the script that records, exactly one record
\* with the external id.
C17_TwiceOneFileOneRecord ==
  \A p, q \in Procs :
    RanTwice(p, q) =>
      /\ Cardinality(FilesOf(script[p])) = 1
      /\ script[p] = "Jules" => Cardinality(RecordsOf("Jules")) = 1

\* Containers the complete runs of the recording script resolved to.
RecordedSpaces ==
  {space_xid[p] : p \in {q \in Procs : Has(q, "record_ok")}}

\* C17: no upload is refused as a duplicate; after two complete runs of a
\* script that resolved to the same container there is exactly one file
\* with the external id and exactly one record with it in that container;
\* over all runs there is one record per container resolved to.
C17_TwiceSameSpaceOneRecord ==
  /\ \A p \in Procs : ~Has(p, "upload_duplicate")
  /\ Cardinality(RecordsOf("Jules")) = Cardinality(RecordedSpaces)
  /\ \A p, q \in Procs :
       RanTwice(p, q) /\ space_xid[p] = space_xid[q] =>
         /\ Cardinality(FilesOf(script[p])) = 1
         /\ script[p] = "Jules" =>
              {r \in RecordsOf("Jules") : r.space = space_xid[p]} =
                {[space |-> space_xid[p],
                  external_id |-> FILE_EXTERNAL_ID("Jules")]}

C17_Witness ==
  \E p, q \in Procs :
    /\ RanTwice(p, q)
    /\ script[p] = "Jules"
    /\ space_xid[p] = space_xid[q]
    /\ Cardinality(RecordsOf("Jules")) = 1

C19_FallbackErrorNoCreate ==
  \A p \in Procs :
    script[p] = "Uploader" =>
      /\ Answered(p, 2, "retrieve", demo_space, {"api_error"}) =>
           /\ Len(calls[p]) = 2
           /\ outcome[p] = "fatal"
           /\ space_xid[p] = None
           /\ pc[p] = "done"
           /\ exit_code[p] = ExitFailure
           /\ ~HasAny(p, UploadStepEvents \cup SuccessReports)
      /\ IssuedCreate(p) =>
           Answered(p, 2, "retrieve", demo_space, {"none", "not_found"})

C19_Witness ==
  \E p, q \in Procs :
    /\ script[p] = "Uploader" /\ script[q] = "Uploader"
    /\ Answered(p, 2, "retrieve", demo_space, {"api_error"})
    /\ exit_code[p] = ExitFailure
    /\ CreateAnswered(q, {"created"})

====
